---- MODULE Spec2Model ----
\* A model of pyrs: the logos scanner declared by `Token` (src/src/lexer.rs:4-36),
\* the indentation pass `lex` (src/src/lexer.rs:38-75) and the driver `main`
\* (src/src/main.rs:6-21).
\*
\* The source text is a sequence of bytes.  An ASCII byte is written as the
\* one-character string of its character; a byte >= 0x80 is written as its two
\* hexadecimal digits ("C3", "A9").  Spans are half-open ranges <<start, end>>
\* of 0-based byte offsets, as Range<usize> is; the byte at offset p is
\* source[p + 1].
EXTENDS Integers, Sequences, FiniteSets, TLC

VARIABLES
  source,        \* the parameter `source` of lex (line 38), as bytes
  pos,           \* the offset the scanner has reached (lexer.spanned(), line 43)
  indent_stack,  \* line 40
  result,        \* line 41
  pc,            \* "idle": lex not called; "loop": in the for loop;
                 \* "done": returned; "panic": last().unwrap() met an
                 \* empty stack
  args,          \* env::args() (main.rs line 7); args[1] is the program name
  file,          \* the file named by the first argument: whether it exists,
                 \* and its bytes
  reads,         \* the number of calls of fs::read_to_string (main.rs line 15)
  stderr,        \* the lines written to the error stream
  stdout,        \* the lines written by println! (main.rs line 19)
  mpc            \* main: "start"; "called": lex called (lines 16-20);
                 \* "exit": returned; "panic": an unwrap() failed

\* The state of the driver.
dvars == <<args, file, reads, stderr, stdout, mpc>>

vars == <<source, pos, indent_stack, result, pc, args, file, reads, stderr, stdout, mpc>>

----------------------------------------------------------------------------
\* Bounds of the input families explored.

MaxChars == 4
MaxLines == 3
MaxWidth == 3

----------------------------------------------------------------------------
\* Bytes and character classes of the patterns.

Letters ==
  {"a","b","c","d","e","f","g","h","i","j","k","l","m",
   "n","o","p","q","r","s","t","u","v","w","x","y","z",
   "A","B","C","D","E","F","G","H","I","J","K","L","M",
   "N","O","P","Q","R","S","T","U","V","W","X","Y","Z"}

Digits == {"0","1","2","3","4","5","6","7","8","9"}

\* A variant of Blank for a skip pattern that also takes '#'.
BlankAndHash == {" ", "\t", "#"}

Blank == {" ", "\t"}

NewlineBody == {"\n", " ", "\t"}

\* UTF-8 continuation bytes (0x80..0xBF) that occur in the inputs explored.
ContinuationBytes == {"A9"}

Slice(src, s, e) == SubSeq(src, s + 1, e)

\* End offset of the maximal run of bytes of class S that starts at offset p.
RECURSIVE RunEnd(_, _, _)
RunEnd(src, p, S) ==
  IF p < Len(src) /\ src[p + 1] \in S THEN RunEnd(src, p + 1, S) ELSE p

StartsWith(src, p, lit) ==
  /\ p + Len(lit) <= Len(src)
  /\ Slice(src, p, p + Len(lit)) = lit

LitLen(src, p, lit) == IF StartsWith(src, p, lit) THEN Len(lit) ELSE 0

ClassLen(src, p, S) == RunEnd(src, p, S) - p

\* A variant of NewlineLen that also takes the blanks at the start of the text
\* as a Newline.
NewlineLenLeading(src, p) ==
  IF p < Len(src) /\ src[p + 1] = "\n"
  THEN RunEnd(src, p + 1, NewlineBody) - p
  ELSE IF p = 0 THEN RunEnd(src, p, {" ", "\t"}) ELSE 0

\* A variant of NewlineLen for the pattern \n[ \t]*, which stops before the
\* next line break.
NewlineLenOneLine(src, p) ==
  IF p < Len(src) /\ src[p + 1] = "\n"
  THEN RunEnd(src, p + 1, Blank) - p
  ELSE 0

\* \n([ \t]*\n)*[ \t]* : a '\n' and then every following '\n', ' ' and '\t'.
NewlineLen(src, p) ==
  IF p < Len(src) /\ src[p + 1] = "\n"
  THEN RunEnd(src, p + 1, NewlineBody) - p
  ELSE 0

\* The patterns of the derive, each with the length of its match at offset p
\* (0: no match) and its logos priority (a literal: 2 per byte; a class: 1).
Patterns(src, p) ==
  { [kind |-> "Skip",             len |-> ClassLen(src, p, Blank),                      prio |-> 1],
    [kind |-> "Definition",       len |-> LitLen(src, p, <<"d","e","f">>),              prio |-> 6],
    [kind |-> "Identifier",       len |-> ClassLen(src, p, Letters),                    prio |-> 1],
    [kind |-> "LeftParentheses",  len |-> LitLen(src, p, <<"(">>),                      prio |-> 2],
    [kind |-> "RightParentheses", len |-> LitLen(src, p, <<")">>),                      prio |-> 2],
    [kind |-> "Arrow",            len |-> LitLen(src, p, <<"-",">">>),                  prio |-> 4],
    [kind |-> "Colon",            len |-> LitLen(src, p, <<":">>),                      prio |-> 2],
    [kind |-> "Newline",          len |-> NewlineLen(src, p),                           prio |-> 2],
    [kind |-> "Return",           len |-> LitLen(src, p, <<"r","e","t","u","r","n">>),  prio |-> 12],
    [kind |-> "Integer",          len |-> ClassLen(src, p, Digits),                     prio |-> 1] }

\* A variant of Best in which a keyword literal wins wherever it matches, also
\* against a longer match.
BestKeywordFirst(src, p) ==
  LET ps == Patterns(src, p)
      kw == {m \in ps : m.kind \in {"Definition", "Return"} /\ m.len > 0}
  IN  IF kw # {} THEN CHOOSE m \in kw : TRUE
      ELSE CHOOSE m \in ps :
             \A o \in ps :
               \/ o.len < m.len
               \/ o.len = m.len /\ o.prio <= m.prio

\* The longest match wins; among equally long matches the higher priority.
Best(src, p) ==
  LET ps == Patterns(src, p)
  IN  CHOOSE m \in ps :
        \A o \in ps :
          \/ o.len < m.len
          \/ o.len = m.len /\ o.prio <= m.prio

----------------------------------------------------------------------------
\* Integer(i64): the callback |lex| lex.slice().parse().ok().
\* An i64 is held as three limbs <<a, b, c>> of base 10^8, most significant
\* first: a * 10^16 + b * 10^8 + c.  <<>> is None (the parse overflowed).

Limb == 10 ^ 8

\* i64::MAX = 9223372036854775807
I64Max == <<922, 33720368, 54775807>>

I64Zero == <<0, 0, 0>>

\* A variant of LimbsGreater with >= in place of >.
LimbsGreaterOrEqual(x, y) ==
  \/ x[1] > y[1]
  \/ x[1] = y[1] /\ x[2] > y[2]
  \/ x[1] = y[1] /\ x[2] = y[2] /\ x[3] >= y[3]

LimbsGreater(x, y) ==
  \/ x[1] > y[1]
  \/ x[1] = y[1] /\ x[2] > y[2]
  \/ x[1] = y[1] /\ x[2] = y[2] /\ x[3] > y[3]

DigitValue(d) == CHOOSE n \in 0..9 : <<"0","1","2","3","4","5","6","7","8","9">>[n + 1] = d

\* acc * 10 + d, limb by limb.
MulAdd(acc, d) ==
  LET c == acc[3] * 10 + d
      b == acc[2] * 10 + (c \div Limb)
      a == acc[1] * 10 + (b \div Limb)
  IN  <<a, b % Limb, c % Limb>>

\* Digit by digit from the left; the first overflow ends the parse with None.
RECURSIVE ParseFrom(_, _, _)
ParseFrom(digits, i, acc) ==
  IF i > Len(digits) THEN acc
  ELSE LET n == MulAdd(acc, DigitValue(digits[i]))
       IN  IF LimbsGreater(n, I64Max) THEN <<>> ELSE ParseFrom(digits, i + 1, n)

ParseI64(digits) == ParseFrom(digits, 1, I64Zero)

----------------------------------------------------------------------------
\* The raw scanner: Token::lexer(source).spanned().

Entry(kind, payload, s, e) == [kind |-> kind, payload |-> payload, span |-> <<s, e>>]

\* What the iterator yields once the input is used up (None).
End(src) == Entry("End", <<>>, Len(src), Len(src))

\* The next character boundary at or after offset i.
Boundary(src, i) == RunEnd(src, i, ContinuationBytes)

\* A variant of ErrorAt that stops after one byte, also inside a character.
ErrorAtOneByte(src, p) == Entry("Err", <<>>, p, p + 1)

\* No pattern matches at offset p: the error covers one byte and then runs on
\* to the next character boundary; scanning resumes there.
ErrorAt(src, p) == Entry("Err", <<>>, p, Boundary(src, p + 1))

\* The entry for the match m found at offset p.
Matched(src, p, m) ==
  LET e == p + m.len
      text == Slice(src, p, e)
  IN  IF m.kind = "Identifier" THEN Entry("Identifier", text, p, e)
      ELSE IF m.kind = "Integer"
           THEN LET v == ParseI64(text)
                IN  IF v = <<>> THEN Entry("Err", <<>>, p, e)
                    ELSE Entry("Integer", v, p, e)
      ELSE Entry(m.kind, <<>>, p, e)

\* The next raw entry at or after offset p: skipped blanks yield nothing.
RECURSIVE NextRaw(_, _)
NextRaw(src, p) ==
  IF p >= Len(src) THEN End(src)
  ELSE LET m == Best(src, p)
       IN  IF m.len = 0 THEN ErrorAt(src, p)
           ELSE IF m.kind = "Skip" THEN NextRaw(src, p + m.len)
           ELSE Matched(src, p, m)

\* The whole raw stream from offset p on.
RECURSIVE RawFrom(_, _)
RawFrom(src, p) ==
  LET t == NextRaw(src, p)
  IN  IF t.kind = "End" THEN <<>> ELSE <<t>> \o RawFrom(src, t.span[2])

RawStream(src) == RawFrom(src, 0)

----------------------------------------------------------------------------
\* The indentation pass: lex.

Top(stack) == stack[Len(stack)]

Pop(stack) == SubSeq(stack, 1, Len(stack) - 1)

\* A variant of indentation with split in place of rsplit: the text before
\* the first '\n' of the slice, which is empty.
indentationSplit(src, span) ==
  LET slice == Slice(src, span[1], span[2])
  IN  (CHOOSE n \in 1..Len(slice) :
         slice[n] = "\n" /\ \A m \in 1..(n - 1) : slice[m] # "\n") - 1

\* slice.rsplit('\n').next().unwrap_or("").len(): the number of bytes of the
\* Newline's text that follow its last '\n'.
RECURSIVE TrailingLen(_, _)
TrailingLen(text, n) ==
  IF n = 0 \/ text[n] = "\n" THEN Len(text) - n ELSE TrailingLen(text, n - 1)

indentation(src, span) ==
  LET slice == Slice(src, span[1], span[2]) IN TrailingLen(slice, Len(slice))

\* A variant of PopWhile with >= in place of >.
RECURSIVE PopWhileInclusive(_, _, _, _)
PopWhileInclusive(stack, out, w, span) ==
  IF stack = <<>> THEN [stack |-> stack, out |-> out, panic |-> TRUE]
  ELSE IF Top(stack) >= w
       THEN PopWhileInclusive(Pop(stack),
                              Append(out, Entry("Deindentation", <<>>, span[1], span[2])), w, span)
       ELSE [stack |-> stack, out |-> out, panic |-> FALSE]

\* while *indent_stack.last().unwrap() > indentation { pop; push Deindentation }
\* An empty stack makes last().unwrap() panic: the pass is then "panic".
RECURSIVE PopWhile(_, _, _, _)
PopWhile(stack, out, w, span) ==
  IF stack = <<>> THEN [stack |-> stack, out |-> out, panic |-> TRUE]
  ELSE IF Top(stack) > w
       THEN PopWhile(Pop(stack), Append(out, Entry("Deindentation", <<>>, span[1], span[2])), w, span)
       ELSE [stack |-> stack, out |-> out, panic |-> FALSE]

\* A variant of HandleNewline without the check after the pops.
HandleNewlineNoError(stack, out, w, span) ==
  LET nl == Append(out, Entry("Newline", <<>>, span[1], span[2]))
      current == Top(stack)
  IN  IF w > current
      THEN [stack |-> Append(stack, w),
            out   |-> Append(nl, Entry("Indentation", <<>>, span[1], span[2])),
            panic |-> FALSE]
      ELSE IF w < current THEN PopWhile(stack, nl, w, span)
           ELSE [stack |-> stack, out |-> nl, panic |-> FALSE]

\* A variant of HandleNewline that makes the check `last != indentation` before
\* the push as well, so that a width not on the stack is always reported.
HandleNewlineCheckFirst(stack, out, w, span) ==
  LET nl == Append(out, Entry("Newline", <<>>, span[1], span[2]))
      current == Top(stack)
  IN  IF w > current
      THEN [stack |-> Append(stack, w),
            out   |-> Append(Append(nl, Entry("Indentation", <<>>, span[1], span[2])),
                             Entry("Err", <<>>, span[1], span[2])),
            panic |-> FALSE]
      ELSE IF w < current
           THEN LET r == PopWhile(stack, nl, w, span)
                IN  IF ~r.panic /\ Top(r.stack) # w
                    THEN [r EXCEPT !.out = Append(r.out, Entry("Err", <<>>, span[1], span[2]))]
                    ELSE r
           ELSE [stack |-> stack, out |-> nl, panic |-> FALSE]

\* A variant of HandleNewline with >= in place of > in the first test.
HandleNewlinePushesEqual(stack, out, w, span) ==
  LET nl == Append(out, Entry("Newline", <<>>, span[1], span[2]))
      current == Top(stack)
  IN  IF w >= current
      THEN [stack |-> Append(stack, w),
            out   |-> Append(nl, Entry("Indentation", <<>>, span[1], span[2])),
            panic |-> FALSE]
      ELSE LET r == PopWhile(stack, nl, w, span)
           IN  IF ~r.panic /\ Top(r.stack) # w
               THEN [r EXCEPT !.out = Append(r.out, Entry("Err", <<>>, span[1], span[2]))]
               ELSE r

\* A variant of HandleNewline that, after the error entry, takes the width as
\* the new level.
HandleNewlineAdoptsWidth(stack, out, w, span) ==
  LET nl == Append(out, Entry("Newline", <<>>, span[1], span[2]))
      current == Top(stack)
  IN  IF w > current
      THEN [stack |-> Append(stack, w),
            out   |-> Append(nl, Entry("Indentation", <<>>, span[1], span[2])),
            panic |-> FALSE]
      ELSE IF w < current
           THEN LET r == PopWhile(stack, nl, w, span)
                IN  IF ~r.panic /\ Top(r.stack) # w
                    THEN [stack |-> Append(r.stack, w),
                          out   |-> Append(r.out, Entry("Err", <<>>, span[1], span[2])),
                          panic |-> FALSE]
                    ELSE r
           ELSE [stack |-> stack, out |-> nl, panic |-> FALSE]

\* The arm Ok(Token::Newline) of the match, for a Newline of width w.
HandleNewline(stack, out, w, span) ==
  LET nl == Append(out, Entry("Newline", <<>>, span[1], span[2]))
      current == Top(stack)
  IN  IF w > current
      THEN [stack |-> Append(stack, w),
            out   |-> Append(nl, Entry("Indentation", <<>>, span[1], span[2])),
            panic |-> FALSE]
      ELSE IF w < current
           THEN LET r == PopWhile(stack, nl, w, span)
                IN  IF ~r.panic /\ Top(r.stack) # w
                    THEN [r EXCEPT !.out = Append(r.out, Entry("Err", <<>>, span[1], span[2]))]
                    ELSE r
           ELSE [stack |-> stack, out |-> nl, panic |-> FALSE]

\* A variant of FlushEof that pops without emitting.
FlushEofSilent(stack, out, eof) ==
  [stack |-> IF Len(stack) > 1 THEN <<stack[1]>> ELSE stack, out |-> out]

\* A variant of FlushEof with the loop condition len() > 2.
RECURSIVE FlushEofStopsEarly(_, _, _)
FlushEofStopsEarly(stack, out, eof) ==
  IF Len(stack) > 2
  THEN FlushEofStopsEarly(Pop(stack), Append(out, Entry("Deindentation", <<>>, eof, eof)), eof)
  ELSE [stack |-> stack, out |-> out]

\* A variant of FlushEof as a loop that tests after its body.
RECURSIVE FlushEofAtLeastOnce(_, _, _)
FlushEofAtLeastOnce(stack, out, eof) ==
  LET s == Pop(stack)
      o == Append(out, Entry("Deindentation", <<>>, eof, eof))
  IN  IF Len(s) > 1 THEN FlushEofAtLeastOnce(s, o, eof) ELSE [stack |-> s, out |-> o]

\* while indent_stack.len() > 1 { pop; push Deindentation at eof }
RECURSIVE FlushEof(_, _, _)
FlushEof(stack, out, eof) ==
  IF Len(stack) > 1
  THEN FlushEof(Pop(stack), Append(out, Entry("Deindentation", <<>>, eof, eof)), eof)
  ELSE [stack |-> stack, out |-> out]

----------------------------------------------------------------------------
\* Inputs.

RECURSIVE Concat(_)
Concat(ss) == IF ss = <<>> THEN <<>> ELSE Head(ss) \o Concat(Tail(ss))

\* The characters of the free-form inputs, each as its UTF-8 bytes.
Chars == {<<"\n">>, <<" ">>, <<"\t">>, <<"a">>, <<"#">>, <<"C3", "A9">>}

CharInputs ==
  UNION { {Concat(cs) : cs \in [1..n -> Chars]} : n \in 0..MaxChars }

Spaces(w) == [i \in 1..w |-> " "]

\* What stands on every line of the line inputs: a word, or a word and a
\* character of no pattern.
Bodies == {<<"a">>, <<"b", "#">>}

\* A first line and then n lines of the widths ws, with or without a final
\* '\n'.
LineInput(ws, body, final) ==
  body \o Concat([i \in 1..Len(ws) |-> <<"\n">> \o Spaces(ws[i]) \o body]) \o final

LineInputs ==
  UNION { {LineInput(ws, body, final) :
             ws \in [1..n -> 0..MaxWidth], body \in Bodies, final \in {<<>>, <<"\n">>}}
          : n \in 1..MaxLines }

\* "def f():\n    return 1\n"
Example1 ==
  <<"d","e","f"," ","f","(",")",":","\n"," "," "," "," ",
    "r","e","t","u","r","n"," ","1","\n">>

\* "if x:\n  a\n b\n"
Example2 == <<"i","f"," ","x",":","\n"," "," ","a","\n"," ","b","\n">>

\* "def g(x) -> y:\n\treturn x # 7\n"
Example3 ==
  <<"d","e","f"," ","g","(","x",")"," ","-",">"," ","y",":","\n","\t",
    "r","e","t","u","r","n"," ","x"," ","#"," ","7","\n">>

\* "if a:\n b\n   c\n     d\n  e\n      f": a dedent over two levels to a
\* width never opened, inside a block that stays open to the end of the input.
Example4 ==
  <<"i","f"," ","a",":","\n"," ","b","\n"," "," "," ","c","\n"," "," "," "," "," ","d",
    "\n"," "," ","e","\n"," "," "," "," "," "," ","f">>

\* "a:\n b:\n  c\n  d\ne\n": two blocks, closed together.
Example5 ==
  <<"a",":","\n"," ","b",":","\n"," "," ","c","\n"," "," ","d","\n","e","\n">>

Examples == {Example1, Example2, Example3, Example4, Example5}

\* Letter runs around the two keywords: the keywords, their proper prefixes,
\* and runs that start with, end with or repeat a keyword.
Words ==
  { <<"d","e","f">>, <<"d","e">>, <<"d","e","f","i","n","e">>, <<"d","e","f","d","e","f">>,
    <<"u","n","d","e","f">>, <<"D","e","f">>,
    <<"r","e","t","u","r","n">>, <<"r","e","t","u","r">>, <<"r","e","t","u","r","n","s">>,
    <<"r","e","t","u","r","n","d","e","f">>, <<"x">> }

\* What stands between two words: nothing, a blank, a token, a digit, a
\* character of no pattern, a line break.
Separators == {<<>>, <<" ">>, <<"(">>, <<"7">>, <<"#">>, <<"\n">>}

WordInputs == {a \o sep \o b : a \in Words, sep \in Separators, b \in Words}

\* Digit runs around i64::MAX = 9223372036854775807.
Numbers ==
  { <<"0">>, <<"0","0","7">>, <<"4","2">>,
    <<"9","2","2","3","3","7","2","0","3","6","8","5","4","7","7","5","8","0","7">>,
    <<"9","2","2","3","3","7","2","0","3","6","8","5","4","7","7","5","8","0","8">>,
    <<"9","2","2","3","3","7","2","0","3","6","8","5","4","7","7","5","8","0","6">>,
    <<"0","0","9","2","2","3","3","7","2","0","3","6","8","5","4","7","7","5","8","0","7">>,
    <<"0","0","9","2","2","3","3","7","2","0","3","6","8","5","4","7","7","5","8","1","0">>,
    <<"1","0","0","0","0","0","0","0","0","0","0","0","0","0","0","0","0","0","0">>,
    <<"9","9","9","9","9","9","9","9","9","9","9","9","9","9","9","9","9","9","9","9">>,
    <<"1","8","4","4","6","7","4","4","0","7","3","7","0","9","5","5","1","6","1","6">> }

\* A digit run alone, before a word, after a token, and before another run.
NumberInputs ==
  UNION { {n, n \o <<"x">>, <<":">> \o n \o <<"\n">>} : n \in Numbers }
    \cup {a \o <<" ">> \o b : a \in Numbers, b \in Numbers}

\* A line of width v, then a whitespace-only line of width u, then a line of
\* width w, indented with the byte ind (a space or a tab).
BlankLineInputs ==
  { <<"a", "\n">> \o [i \in 1..v |-> ind] \o <<"a", "\n">> \o [i \in 1..u |-> ind]
      \o <<"\n">> \o [i \in 1..w |-> ind] \o <<"a">> :
      v \in 0..MaxWidth, u \in 0..MaxWidth, w \in 0..MaxWidth, ind \in Blank }

Inputs ==
  CharInputs \cup LineInputs \cup Examples \cup WordInputs \cup NumberInputs
    \cup BlankLineInputs

----------------------------------------------------------------------------
\* The state machine of lex: one step per iteration of `for (token, span) in
\* lexer.spanned()`, and one for the code after the loop.

\* lex has been called with source (by main at line 16, which read it from
\* the file its argument names).
Init ==
  /\ source \in Inputs
  /\ pos = 0
  /\ indent_stack = <<0>>
  /\ result = <<>>
  /\ pc = "loop"
  /\ args = <<"pyrsc", "input.py">>
  /\ file = [exists |-> TRUE, bytes |-> source]
  /\ reads = 1
  /\ stderr = <<>>
  /\ stdout = <<>>
  /\ mpc = "called"

\* A variant of LexNewline that leaves a Newline at the end of the input to the
\* end-of-input flush.
LexNewlineDefersAtEnd ==
  /\ pc = "loop"
  /\ LET t == NextRaw(source, pos)
     IN  /\ t.kind = "Newline"
         /\ LET r == IF t.span[2] = Len(source)
                     THEN [stack |-> indent_stack, out |-> Append(result, t), panic |-> FALSE]
                     ELSE HandleNewline(indent_stack, result, indentation(source, t.span), t.span)
            IN  /\ indent_stack' = r.stack
                /\ result' = r.out
                /\ pc' = IF r.panic THEN "panic" ELSE "loop"
         /\ pos' = t.span[2]
  /\ UNCHANGED source
  /\ UNCHANGED dvars

\* Ok(Token::Newline) => { ... }
LexNewline ==
  /\ pc = "loop"
  /\ LET t == NextRaw(source, pos)
     IN  /\ t.kind = "Newline"
         /\ LET r == HandleNewline(indent_stack, result, indentation(source, t.span), t.span)
            IN  /\ indent_stack' = r.stack
                /\ result' = r.out
                /\ pc' = IF r.panic THEN "panic" ELSE "loop"
         /\ pos' = t.span[2]
  /\ UNCHANGED source
  /\ UNCHANGED dvars

\* A variant of LexOther that pushes tokens only and drops scanner errors.
LexOtherDropsErrors ==
  /\ pc = "loop"
  /\ LET t == NextRaw(source, pos)
     IN  /\ t.kind \notin {"Newline", "End"}
         /\ result' = IF t.kind = "Err" THEN result ELSE Append(result, t)
         /\ pos' = t.span[2]
  /\ UNCHANGED <<source, indent_stack, pc>>
  /\ UNCHANGED dvars

\* other => result.push((other, span))
LexOther ==
  /\ pc = "loop"
  /\ LET t == NextRaw(source, pos)
     IN  /\ t.kind \notin {"Newline", "End"}
         /\ result' = Append(result, t)
         /\ pos' = t.span[2]
  /\ UNCHANGED <<source, indent_stack, pc>>
  /\ UNCHANGED dvars

\* The iterator is exhausted: the end-of-input flush, and return.
LexEof ==
  /\ pc = "loop"
  /\ NextRaw(source, pos).kind = "End"
  /\ LET r == FlushEof(indent_stack, result, Len(source))
     IN  /\ indent_stack' = r.stack
         /\ result' = r.out
  /\ pos' = Len(source)
  /\ pc' = "done"
  /\ UNCHANGED source
  /\ UNCHANGED dvars

Next == LexNewline \/ LexOther \/ LexEof

Spec == Init /\ [][Next]_vars

----------------------------------------------------------------------------
\* The driver: main (src/src/main.rs).

\* Whether the bytes from offset i on are UTF-8, over the bytes of the model:
\* "C3" leads a two-byte character and "A9" continues one.
RECURSIVE ValidUtf8(_, _)
ValidUtf8(bytes, i) ==
  IF i >= Len(bytes) THEN TRUE
  ELSE IF bytes[i + 1] = "C3"
       THEN i + 1 < Len(bytes) /\ bytes[i + 2] = "A9" /\ ValidUtf8(bytes, i + 2)
       ELSE bytes[i + 1] # "A9" /\ ValidUtf8(bytes, i + 1)

\* Command lines: none to two arguments after the program name, and the empty
\* argument vector.
ArgLists ==
  {<<>>, <<"pyrsc">>, <<"pyrsc", "input.py">>, <<"pyrsc", "input.py", "more.py">>}

\* Contents of the file: the example programs, the empty file, an integer out
\* of range, a character no pattern takes, and bytes that are not UTF-8.
FileContents ==
  Examples \cup
    {<<>>, <<"x", " ", "9","9","9","9","9","9","9","9","9","9",
                       "9","9","9","9","9","9","9","9","9","9">>,
     <<"a", "C3", "A9", "\n">>, <<"A9">>, <<"a", "C3">>}

Files ==
  {[exists |-> FALSE, bytes |-> <<>>]} \cup
    {[exists |-> TRUE, bytes |-> b] : b \in FileContents}

\* The three lines main writes with eprintln! when it has no argument.
UsageLines == <<"Invalid usage", "Usage:", "    pyrsc <input.py>">>

\* What a failed unwrap() writes to the error stream.
PanicLine == "thread 'main' panicked"

\* What `{:?}: {:?}` prints for an entry: the token, with its field if it has
\* one, and the span.
Line(e) ==
  [token |-> IF e.kind \in {"Identifier", "Integer"} THEN <<e.kind, e.payload>> ELSE <<e.kind>>,
   span  |-> e.span]

\* The process starts: main is entered, lex has not been called.
DriverInit ==
  /\ args \in ArgLists
  /\ file \in Files
  /\ reads = 0
  /\ stderr = <<>>
  /\ stdout = <<>>
  /\ mpc = "start"
  /\ source = <<>>
  /\ pos = 0
  /\ indent_stack = <<>>
  /\ result = <<>>
  /\ pc = "idle"

\* A variant of MainUsage without the `return`: after the three lines main
\* goes on to line 15, where args[1] is out of range.
MainUsageFallsThrough ==
  /\ mpc = "start"
  /\ Len(args) < 2
  /\ stderr' = Append(stderr \o UsageLines, PanicLine)
  /\ mpc' = "panic"
  /\ UNCHANGED <<source, pos, indent_stack, result, pc, args, file, reads, stdout>>

\* if args.len() < 2 { eprintln!(...); eprintln!(...); eprintln!(...); return; }
MainUsage ==
  /\ mpc = "start"
  /\ Len(args) < 2
  /\ stderr' = stderr \o UsageLines
  /\ mpc' = "exit"
  /\ UNCHANGED <<source, pos, indent_stack, result, pc, args, file, reads, stdout>>

\* fs::read_to_string(..).unwrap() and the call of lex with its first lines:
\* a missing file or one that is not UTF-8 makes unwrap() panic.
MainRead ==
  /\ mpc = "start"
  /\ Len(args) >= 2
  /\ reads' = reads + 1
  /\ IF file.exists /\ ValidUtf8(file.bytes, 0)
     THEN /\ source' = file.bytes
          /\ pos' = 0
          /\ indent_stack' = <<0>>
          /\ result' = <<>>
          /\ pc' = "loop"
          /\ mpc' = "called"
          /\ UNCHANGED stderr
     ELSE /\ stderr' = Append(stderr, PanicLine)
          /\ mpc' = "panic"
          /\ UNCHANGED <<source, pos, indent_stack, result, pc>>
  /\ UNCHANGED <<args, file, stdout>>

\* One iteration of `for (token, span) in tokens`: token.unwrap() panics at an
\* error entry, any other entry is printed.
MainPrint ==
  /\ mpc = "called"
  /\ pc = "done"
  /\ Len(stdout) < Len(result)
  /\ LET e == result[Len(stdout) + 1]
     IN  IF e.kind = "Err"
         THEN /\ stderr' = Append(stderr, PanicLine)
              /\ mpc' = "panic"
              /\ UNCHANGED stdout
         ELSE /\ stdout' = Append(stdout, Line(e))
              /\ UNCHANGED <<stderr, mpc>>
  /\ UNCHANGED <<source, pos, indent_stack, result, pc, args, file, reads>>

\* The loop of main is over: main returns.
MainReturn ==
  /\ mpc = "called"
  /\ pc = "done"
  /\ Len(stdout) = Len(result)
  /\ mpc' = "exit"
  /\ UNCHANGED <<source, pos, indent_stack, result, pc, args, file, reads, stderr, stdout>>

DriverNext ==
  MainUsage \/ MainRead \/ LexNewline \/ LexOther \/ LexEof \/ MainPrint \/ MainReturn

DriverSpec == DriverInit /\ [][DriverNext]_vars

----------------------------------------------------------------------------
\* Vocabulary of the properties.

\* The raw entry the next iteration of the loop receives.
Tok == NextRaw(source, pos)

\* The entries a step appends to result.
Added == SubSeq(result', Len(result) + 1, Len(result'))

Extends == Len(result') >= Len(result) /\ SubSeq(result', 1, Len(result)) = result

Count(seq, kind) == Cardinality({i \in DOMAIN seq : seq[i].kind = kind})

\* A step that handles a raw Newline.
NewlineStep == pc = "loop" /\ Tok.kind = "Newline"

Width == indentation(source, Tok.span)

\* The number of stack elements strictly greater than w.
Above(stack, w) == Cardinality({i \in DOMAIN stack : stack[i] > w})

Syn(kind, span) == [kind |-> kind, payload |-> <<>>, span |-> span]

\* C1: a raw Newline of width w, with t the stack top, is emitted first and
\* unchanged; then w > t pushes w and emits exactly one Indentation; w = t
\* emits nothing and leaves the stack; w < t pops, and emits one Deindentation
\* for each stack element strictly greater than w.  All of it is appended in the
\* Newline's own iteration, so before the entry of the next raw token.
C1_NewlineRule ==
  [][NewlineStep =>
       LET w == Width
           t == Top(indent_stack)
           k == Above(indent_stack, w)
       IN  /\ Extends
           /\ Len(Added) >= 1
           /\ Added[1] = Tok
           /\ w > t => /\ indent_stack' = Append(indent_stack, w)
                       /\ Len(Added) = 2
                       /\ Added[2].kind = "Indentation"
           /\ w = t => /\ indent_stack' = indent_stack
                       /\ Len(Added) = 1
           /\ w < t => /\ indent_stack' = SubSeq(indent_stack, 1, Len(indent_stack) - k)
                       /\ Count(Added, "Deindentation") = k
                       /\ Count(Added, "Indentation") = 0
                       /\ \A i \in 2..(k + 1) : Added[i].kind = "Deindentation"
                       /\ \A i \in DOMAIN indent_stack' : indent_stack'[i] <= w
  ]_vars

\* A Newline that opened a block, one that changed nothing and one that closed
\* two blocks have all been handled.
C1_Witness ==
  /\ pc = "done"
  /\ \E i \in DOMAIN result : i < Len(result)
        /\ result[i].kind = "Newline" /\ result[i + 1].kind = "Indentation"
  /\ \E i \in DOMAIN result : i < Len(result)
        /\ result[i].kind = "Newline" /\ result[i + 1].kind = "Identifier"
  /\ \E i \in DOMAIN result : i + 2 < Len(result)
        /\ result[i].kind = "Newline"
        /\ result[i + 1].kind = "Deindentation"
        /\ result[i + 2].kind = "Deindentation"
        /\ result[i + 3].kind = "Identifier"

Kinds(seq) == [i \in DOMAIN seq |-> seq[i].kind]

\* C2: a Newline of width w yields an inconsistent-dedent error entry exactly
\* when w is below the stack top and the top reached by popping every level
\* greater than w is not w; then there is exactly one, it follows all of the
\* Newline's Deindentation entries, and the stack stays at the level reached.
\* For "if x:\n  a\n b\n": one Deindentation, then one error, stack [0].
C2_InconsistentDedent ==
  /\ [][NewlineStep =>
          LET w == Width
              k == Above(indent_stack, w)
              reached == SubSeq(indent_stack, 1, Len(indent_stack) - k)
              bad == w < Top(indent_stack) /\ Top(reached) # w
          IN  /\ Count(Added, "Err") = (IF bad THEN 1 ELSE 0)
              /\ bad => /\ Len(Added) = k + 2
                        /\ \A i \in 2..(k + 1) : Added[i].kind = "Deindentation"
                        /\ Added[k + 2] = Syn("Err", Tok.span)
                        /\ indent_stack' = reached
     ]_vars
  /\ [](source = Example2 =>
          /\ (result # <<>> /\ result[Len(result)].kind = "Err") =>
                /\ indent_stack = <<0>>
                /\ Kinds(result) = <<"Identifier", "Identifier", "Colon", "Newline",
                                     "Indentation", "Identifier", "Newline",
                                     "Deindentation", "Err">>
          /\ pc = "done" => Count(result, "Err") = 1 /\ Count(result, "Deindentation") = 1)

\* An error entry was emitted after two Deindentation entries of its Newline.
C2_Witness ==
  \E i \in DOMAIN result :
    /\ i > 3
    /\ result[i].kind = "Err"
    /\ result[i - 1].kind = "Deindentation"
    /\ result[i - 2].kind = "Deindentation"
    /\ result[i - 3].kind = "Newline"
    /\ result[i - 3].span = result[i].span
    /\ Len(indent_stack) > 1

Prefix(seq, n) == SubSeq(seq, 1, n)

Last(seq) == seq[Len(seq)]

Eof == <<Len(source), Len(source)>>

\* C3: at every prefix of the stream the Indentation entries are at least as
\* many as the Deindentation entries, and over the whole returned stream the
\* two counts are equal.
C3_Balance ==
  /\ \A n \in 0..Len(result) :
       Count(Prefix(result, n), "Indentation") >= Count(Prefix(result, n), "Deindentation")
  /\ pc = "done" => Count(result, "Indentation") = Count(result, "Deindentation")

\* A returned stream with two blocks opened, one closed by a Newline and one
\* by the end-of-input flush.
C3_Witness ==
  /\ pc = "done"
  /\ Count(result, "Indentation") >= 2
  /\ Last(result) = Syn("Deindentation", Eof)
  /\ \E i \in DOMAIN result : result[i].kind = "Deindentation" /\ result[i].span # Eof

\* The step that ends the loop and returns.
ReturnStep == pc = "loop" /\ pc' = "done"

\* C4: once the raw tokens are used up, lex pops every level above the bottom
\* 0 and emits one Deindentation per pop, each with the span len..len; they
\* are the last entries of the stream, and the stack on return is [0].
C4_EofFlush ==
  /\ [][ReturnStep =>
          /\ Tok.kind = "End"
          /\ Extends
          /\ Len(Added) = Len(indent_stack) - 1
          /\ \A i \in DOMAIN Added : Added[i] = Syn("Deindentation", Eof)
     ]_vars
  /\ [][pc = "done" => result' = result]_vars
  /\ [](pc = "done" => indent_stack = <<0>>)

\* A pass that reported an inconsistent dedent returned after a flush of two
\* levels.
C4_Witness ==
  /\ pc = "done"
  /\ Len(result) > 3
  /\ result[Len(result)] = Syn("Deindentation", Eof)
  /\ result[Len(result) - 1] = Syn("Deindentation", Eof)
  /\ \E i \in DOMAIN result :
        /\ i > 1
        /\ result[i].kind = "Err"
        /\ result[i - 1].kind = "Deindentation"
        /\ result[i - 1].span = result[i].span

\* The stream without its synthetic entries: every Indentation and
\* Deindentation, and every error entry that carries the span of the Newline
\* it follows (a scanner error never has the span of a Newline).
RECURSIVE StripFrom(_, _, _)
StripFrom(seq, i, nl) ==
  IF i > Len(seq) THEN <<>>
  ELSE LET e == seq[i]
       IN  IF e.kind \in {"Indentation", "Deindentation"} THEN StripFrom(seq, i + 1, nl)
           ELSE IF e.kind = "Err" /\ e.span = nl THEN StripFrom(seq, i + 1, nl)
           ELSE <<e>> \o StripFrom(seq, i + 1, IF e.kind = "Newline" THEN e.span ELSE nl)

StripSynthetic(seq) == StripFrom(seq, 1, <<-1, -1>>)

\* C5: without its synthetic entries the output is the raw scanner stream,
\* entry by entry with the same tokens, errors and spans in the same order;
\* during the pass it is the part of the raw stream consumed so far.
C5_RawPreserved ==
  LET raw == RawStream(source)
      kept == StripSynthetic(result)
  IN  /\ Len(kept) <= Len(raw)
      /\ kept = Prefix(raw, Len(kept))
      /\ pc = "done" => kept = raw

\* A returned stream with an inconsistent-dedent error and, after it, a token
\* and a scanner error.
C5_Witness ==
  /\ pc = "done"
  /\ \E i, j \in DOMAIN result :
        /\ 1 < i /\ i < j /\ j < Len(result)
        /\ result[i].kind = "Err"
        /\ result[i - 1].kind = "Deindentation"
        /\ result[i - 1].span = result[i].span
        /\ result[j].kind = "Identifier"
        /\ result[j + 1].kind = "Err"
        /\ result[j + 1].span[1] = result[j].span[2]

\* Entry i of seq is synthetic: an Indentation, a Deindentation, or an error
\* entry that is not an entry of the raw stream.
IsSynthetic(seq, i) ==
  \/ seq[i].kind \in {"Indentation", "Deindentation"}
  \/ /\ seq[i].kind = "Err"
     /\ \A r \in DOMAIN RawStream(source) : RawStream(source)[r] # seq[i]

\* The span of the last Newline before entry i, or <<0, 0>>.
RECURSIVE NewlineBefore(_, _)
NewlineBefore(seq, i) ==
  IF i = 0 THEN <<0, 0>>
  ELSE IF seq[i].kind = "Newline" THEN seq[i].span ELSE NewlineBefore(seq, i - 1)

\* C6: every synthetic entry (Indentation, Deindentation, inconsistent-dedent
\* error) has a zero-width span, start = end, at the position that triggered
\* it: within its Newline, or at the end of the input.
C6_SyntheticZeroWidth ==
  \A i \in DOMAIN result :
    IsSynthetic(result, i) =>
      /\ result[i].span[1] = result[i].span[2]
      /\ \/ result[i].span = Eof
         \/ /\ NewlineBefore(result, i)[1] <= result[i].span[1]
            /\ result[i].span[1] <= NewlineBefore(result, i)[2]

Overlap(a, b) == a[1] < b[2] /\ b[1] < a[2]

\* C7: along the stream the spans are non-decreasing in start offset, no two
\* entries' spans share a byte of the source, and every span satisfies
\* 0 <= start <= end <= len(source).
C7_SpansOrdered ==
  /\ \A i, j \in DOMAIN result :
       i < j => /\ result[i].span[1] <= result[j].span[1]
                /\ ~Overlap(result[i].span, result[j].span)
  /\ \A i \in DOMAIN result :
       /\ 0 <= result[i].span[1]
       /\ result[i].span[1] <= result[i].span[2]
       /\ result[i].span[2] <= Len(source)

\* C8: a Newline whose width is greater than the stack top emits exactly one
\* Indentation and no error entry (nor a Deindentation), and its width becomes
\* the top, whatever was pushed and popped before.
C8_ReopenNoError ==
  [][(NewlineStep /\ Width > Top(indent_stack)) =>
       /\ Count(Added, "Indentation") = 1
       /\ Count(Added, "Err") = 0
       /\ Count(Added, "Deindentation") = 0
       /\ Top(indent_stack') = Width
       /\ Pop(indent_stack') = indent_stack
  ]_vars

\* A block was opened at some width, closed, and opened again at that width,
\* and the pass has reported no error.
C8_Witness ==
  /\ Count(result, "Err") = 0
  /\ \E i, j, k \in DOMAIN result :
        /\ i < j /\ j < k
        /\ result[i].kind = "Indentation"
        /\ result[j].kind = "Deindentation"
        /\ result[k].kind = "Indentation"
        /\ indentation(source, result[i].span) = indentation(source, result[k].span)
        /\ k = Len(result)

\* The 11 tokens of Example1, in order, with the payloads f and 1.
Example1Tokens(seq) ==
  /\ Kinds(seq) = <<"Definition", "Identifier", "LeftParentheses", "RightParentheses",
                    "Colon", "Newline", "Indentation", "Return", "Integer",
                    "Newline", "Deindentation">>
  /\ seq[2].payload = <<"f">>
  /\ seq[9].payload = <<0, 0, 1>>

\* C9 as stated: for "def f():\n    return 1\n" lex returns the 11 entries
\* Definition, Identifier("f"), LeftParen, RightParen, Colon, Newline,
\* Indentation, Return, Integer(1), Newline, Deindentation, and the final
\* Deindentation is the one of the end-of-input flush, at the end-of-input
\* offset.
C9_Original ==
  (source = Example1 /\ pc = "done") =>
     /\ Example1Tokens(result)
     /\ Last(result).span = Eof

\* C9 as amended: the same 11 entries in this order, and the final
\* Deindentation is emitted for the last Newline (width 0 below the top 4)
\* with that Newline's span 21..22; the end-of-input flush emits nothing.
C9_Example1 ==
  /\ []((source = Example1 /\ pc = "done") =>
          /\ Example1Tokens(result)
          /\ [i \in DOMAIN result |-> result[i].span] =
               << <<0, 3>>, <<4, 5>>, <<5, 6>>, <<6, 7>>, <<7, 8>>, <<8, 13>>, <<8, 13>>,
                  <<13, 19>>, <<20, 21>>, <<21, 22>>, <<21, 22>> >>)
  /\ [][(source = Example1 /\ ReturnStep) => (result' = result /\ Len(result) = 11)]_vars
  /\ [][(source = Example1 /\ NewlineStep /\ Len(result) = 9) =>
          (Len(result') = 11 /\ indent_stack = <<0, 4>> /\ indent_stack' = <<0>>)]_vars

\* lex has returned for Example1.
C9_Witness == source = Example1 /\ pc = "done" /\ Len(result) = 11

\* UTF-8: the number of bytes of the character that starts with byte b.
CharLen(b) == IF b = "C3" THEN 2 ELSE 1

Shift(seq, d) ==
  [i \in DOMAIN seq |-> [seq[i] EXCEPT !.span = <<@[1] + d, @[2] + d>>]]

Suffix(src, p) == SubSeq(src, p + 1, Len(src))

\* The loop receives a scanner error for a character at which no pattern
\* matches (not the error of an Integer that overflows).
BadCharStep ==
  /\ pc = "loop"
  /\ Tok.kind = "Err"
  /\ Best(source, Tok.span[1]).len = 0

\* C10: a character that matches no pattern yields exactly one error entry,
\* whose span is that one character, and scanning resumes right after it: the
\* entries that follow are those of the rest of the text scanned on its own,
\* and the character adds no other error.
C10_BadCharacter ==
  [][BadCharStep =>
       LET p == Tok.span[1]
           e == p + CharLen(source[p + 1])
           rest == Shift(RawStream(Suffix(source, e)), e)
       IN  /\ Added = <<Syn("Err", <<p, e>>)>>
           /\ pos' = e
           /\ RawFrom(source, p) = <<Syn("Err", <<p, e>>)>> \o rest
           /\ Count(RawFrom(source, p), "Err") = 1 + Count(rest, "Err")
  ]_vars

\* A two-byte character and a '#' were each reported by one error entry, and
\* the tokens right after them were recognized.
C10_Witness ==
  /\ pc = "done"
  /\ \E i, j \in DOMAIN result :
        /\ i < Len(result) /\ j < Len(result)
        /\ result[i].kind = "Err"
        /\ result[i].span[2] = result[i].span[1] + 2
        /\ result[i + 1].kind \in {"Identifier", "Integer"}
        /\ result[i + 1].span[1] = result[i].span[2]
        /\ result[j].kind = "Err"
        /\ source[result[j].span[1] + 1] = "#"
        /\ result[j + 1].kind \in {"Identifier", "Integer"}
        /\ result[j + 1].span[1] = result[j].span[2]

\* The end offset of the maximal run of bytes of class S that starts at
\* offset p of the source.
MaximalRun(p, S) ==
  CHOOSE e \in p..Len(source) :
    /\ \A i \in (p + 1)..e : source[i] \in S
    /\ e = Len(source) \/ source[e + 1] \notin S

\* The loop receives the entry of a text that starts with a byte of class S.
StepAt(S) == pc = "loop" /\ Tok.kind # "End" /\ source[Tok.span[1] + 1] \in S

\* C11: the longest match wins and, at equal length, the fixed string wins
\* over the identifier pattern: a maximal run of ASCII letters is Definition
\* if it is "def", Return if it is "return", and otherwise one Identifier
\* that carries the whole run, also when "def" or "return" is a proper prefix.
C11_LongestMatch ==
  [][StepAt(Letters) =>
       LET p == Tok.span[1]
           e == MaximalRun(p, Letters)
           text == Slice(source, p, e)
       IN  /\ p = 0 \/ source[p] \notin Letters
           /\ pos' = e
           /\ Added = << IF text = <<"d","e","f">> THEN Syn("Definition", <<p, e>>)
                         ELSE IF text = <<"r","e","t","u","r","n">> THEN Syn("Return", <<p, e>>)
                         ELSE [kind |-> "Identifier", payload |-> text, span |-> <<p, e>>] >>
  ]_vars

\* "returns" was scanned as one Identifier and, after it, "def" as Definition.
C11_Witness ==
  /\ pc = "done"
  /\ \E i \in DOMAIN result :
        /\ i < Len(result)
        /\ result[i].kind = "Identifier"
        /\ result[i].payload = <<"r","e","t","u","r","n","s">>
        /\ result[i + 1].kind = "Definition"

\* i64::MAX in decimal.
MaxDigits ==
  <<"9","2","2","3","3","7","2","0","3","6","8","5","4","7","7","5","8","0","7">>

RECURSIVE StripZeros(_)
StripZeros(ds) ==
  IF ds # <<>> /\ Head(ds) = "0" THEN StripZeros(Tail(ds)) ELSE ds

\* a <= b for two decimal numerals of the same length.
RECURSIVE NumeralLeq(_, _)
NumeralLeq(a, b) ==
  \/ a = <<>>
  \/ DigitValue(Head(a)) < DigitValue(Head(b))
  \/ Head(a) = Head(b) /\ NumeralLeq(Tail(a), Tail(b))

\* The decimal value of the digit run ds is at most 2^63 - 1.
FitsI64(ds) ==
  LET t == StripZeros(ds)
  IN  \/ Len(t) < Len(MaxDigits)
      \/ Len(t) = Len(MaxDigits) /\ NumeralLeq(t, MaxDigits)

\* The n decimal digits of k, most significant first.
Numeral(k, n) ==
  [i \in 1..n |-> <<"0","1","2","3","4","5","6","7","8","9">>[((k \div (10 ^ (n - i))) % 10) + 1]]

\* An Integer payload in decimal, without leading zeros.
Decimal(v) == StripZeros(Numeral(v[1], 3) \o Numeral(v[2], 8) \o Numeral(v[3], 8))

\* C12: a maximal run of ASCII digits yields one entry spanning the whole run:
\* Integer(v), v its decimal value, when v <= 2^63 - 1, and otherwise one error
\* entry with that span; scanning continues after the run.
C12_IntegerOrError ==
  [][StepAt(Digits) =>
       LET p == Tok.span[1]
           e == MaximalRun(p, Digits)
           text == Slice(source, p, e)
       IN  /\ p = 0 \/ source[p] \notin Digits
           /\ pos' = e
           /\ Len(Added) = 1
           /\ Added[1].span = <<p, e>>
           /\ IF FitsI64(text)
              THEN /\ Added[1].kind = "Integer"
                   /\ Decimal(Added[1].payload) = StripZeros(text)
              ELSE Added[1] = Syn("Err", <<p, e>>)
  ]_vars

\* i64::MAX was scanned as an Integer and, after it, i64::MAX + 1 as one error
\* entry over its 19 digits.
C12_Witness ==
  /\ pc = "done"
  /\ Len(result) = 2
  /\ result[1].kind = "Integer"
  /\ result[1].payload = I64Max
  /\ result[1].span = <<0, 19>>
  /\ result[2] = Syn("Err", <<20, 39>>)

\* The offset of the last '\n' of the source in p..(e - 1).
LastBreak(p, e) ==
  CHOOSE i \in p..(e - 1) :
    /\ source[i + 1] = "\n"
    /\ \A j \in (i + 1)..(e - 1) : source[j + 1] # "\n"

IsPrefix(a, b) == Len(a) <= Len(b) /\ SubSeq(b, 1, Len(a)) = a

\* C13: a '\n' with every line break, space and tab that follows it is one
\* Newline token; the width used for the indent stack is the number of bytes
\* after its last '\n', a tab counting 1; the whitespace-only lines inside it
\* have no effect on the stack, whatever their width.
C13_NewlineRun ==
  [][NewlineStep =>
       LET p == Tok.span[1]
           e == MaximalRun(p, {"\n", " ", "\t"})
           w == e - LastBreak(p, e) - 1
           t == Top(indent_stack)
       IN  /\ source[p + 1] = "\n"
           /\ Added[1] = Syn("Newline", <<p, e>>)
           /\ Count(Added, "Newline") = 1
           /\ pos' = e
           /\ w > t => indent_stack' = Append(indent_stack, w)
           /\ w = t => indent_stack' = indent_stack
           /\ w < t => /\ IsPrefix(indent_stack', indent_stack)
                       /\ Top(indent_stack') <= w
                       /\ Above(indent_stack', w) = 0
                       /\ Len(indent_stack') = Len(indent_stack) - Above(indent_stack, w)
  ]_vars

\* A Newline token with a whitespace-only line of tabs inside it that is
\* wider than the stack top was handled, and the stack stayed as it was.
C13_Witness ==
  /\ pc = "loop"
  /\ result # <<>>
  /\ Last(result).kind = "Newline"
  /\ indent_stack = <<0, 1>>
  /\ LET s == Last(result).span
     IN  /\ indentation(source, s) = 1
         /\ \E i \in (s[1] + 1)..(s[2] - 1) :
               /\ source[i + 1] = "\n"
               /\ i - s[1] - 1 > 1
               /\ \A j \in (s[1] + 1)..(i - 1) : source[j + 1] = "\t"

\* The bytes of the source at the offsets a..(b - 1) are spaces and tabs.
OnlyBlanks(a, b) == \A i \in (a + 1)..b : source[i] \in {" ", "\t"}

\* C14: the raw entries cover the input in source order: the scanner is at
\* the end of the last raw entry; up to the start of the next raw entry there
\* are only spaces and tabs; that entry is not empty and does not start at a
\* skipped byte; after the last entry only spaces and tabs are left.
C14_Coverage ==
  /\ [](pc = "loop" =>
          pos = (IF StripSynthetic(result) = <<>> THEN 0
                 ELSE Last(StripSynthetic(result)).span[2]))
  /\ [][pc = "loop" =>
          IF Tok.kind = "End"
          THEN OnlyBlanks(pos, Len(source))
          ELSE /\ pos <= Tok.span[1]
               /\ Tok.span[1] < Tok.span[2]
               /\ Tok.span[2] <= Len(source)
               /\ OnlyBlanks(pos, Tok.span[1])
               /\ source[Tok.span[1] + 1] \notin {" ", "\t"}
               /\ StripSynthetic(Added) = <<Tok>>
               /\ pos' = Tok.span[2]
     ]_vars

\* lex has returned for Example3, whose 14 raw entries are tokens, a scanner
\* error and Newlines with skipped blanks between them.
C14_Witness ==
  /\ source = Example3
  /\ pc = "done"
  /\ Len(StripSynthetic(result)) = 14
  /\ Count(result, "Err") = 1

\* C15: for the empty input lex returns no entry at all.
C15_EmptyInput == source = <<>> => (result = <<>> /\ indent_stack = <<0>>)

\* lex has returned for the empty input.
C15_Witness == source = <<>> /\ pc = "done"

\* C17: the indent stack is never empty, its bottom is 0 and it is strictly
\* increasing from bottom to top, so last().unwrap() never panics.
C17_StackShape ==
  /\ pc # "panic"
  /\ indent_stack # <<>>
  /\ indent_stack[1] = 0
  /\ \A i \in 1..(Len(indent_stack) - 1) : indent_stack[i] < indent_stack[i + 1]

\* Three blocks were open and a Newline closed two of them with an error.
C17_Witness ==
  /\ indent_stack = <<0, 1>>
  /\ result # <<>>
  /\ Last(result).kind = "Err"
  /\ Count(result, "Indentation") = 3
  /\ Count(result, "Deindentation") = 2

\* C18: for a source without '\n' the stack stays [0] and the output has no
\* Newline, Indentation or Deindentation entry, also when the first line
\* starts with spaces or tabs.
C18_NoLineBreak ==
  (\A i \in DOMAIN source : source[i] # "\n") =>
     /\ indent_stack = <<0>>
     /\ \A i \in DOMAIN result :
          result[i].kind \notin {"Newline", "Indentation", "Deindentation"}

\* lex has returned for a one-line source that starts with a tab.
C18_Witness ==
  /\ pc = "done"
  /\ \A i \in DOMAIN source : source[i] # "\n"
  /\ Len(source) > 1
  /\ source[1] = "\t"
  /\ result # <<>>
  /\ result[1].kind = "Identifier"

EndsWithBreak == source # <<>> /\ Last(source) = "\n"

\* The index of the last Newline entry of seq, or 0.
LastNewline(seq) ==
  IF \E i \in DOMAIN seq : seq[i].kind = "Newline"
  THEN CHOOSE i \in DOMAIN seq :
         /\ seq[i].kind = "Newline"
         /\ \A j \in DOMAIN seq : seq[j].kind = "Newline" => j <= i
  ELSE 0

\* C19: when the source ends with '\n', its last raw token is a Newline of
\* width 0 that reaches the end of the input; every block still open is closed
\* by a Deindentation with that Newline's span, no error is emitted for it,
\* and the end-of-input flush emits nothing: no entry has the span len..len.
C19_FinalBreak ==
  /\ []((EndsWithBreak /\ pc = "done") =>
          LET n == LastNewline(result)
              open == Count(Prefix(result, n), "Indentation")
                        - Count(Prefix(result, n), "Deindentation")
          IN  /\ n > 0
              /\ result[n].span[2] = Len(source)
              /\ indentation(source, result[n].span) = 0
              /\ Len(result) = n + open
              /\ \A i \in (n + 1)..Len(result) :
                    result[i] = Syn("Deindentation", result[n].span)
              /\ \A i \in DOMAIN result : result[i].span # Eof)
  /\ [][(EndsWithBreak /\ ReturnStep) => (indent_stack = <<0>> /\ result' = result)]_vars

\* lex has returned for a source that ends with '\n', and the last Newline
\* closed two blocks.
C19_Witness ==
  /\ pc = "done"
  /\ EndsWithBreak
  /\ Len(result) > 3
  /\ result[Len(result) - 2].kind = "Newline"
  /\ result[Len(result) - 2].span[2] = Len(source)
  /\ result[Len(result) - 1] = Syn("Deindentation", result[Len(result) - 2].span)
  /\ result[Len(result)] = Syn("Deindentation", result[Len(result) - 2].span)

\* The last Newline handled had the width w and got an inconsistent-dedent
\* error entry.
AfterError(w) ==
  LET n == LastNewline(result)
  IN  /\ n > 0
      /\ indentation(source, result[n].span) = w
      /\ \E j \in (n + 1)..Len(result) : result[j] = Syn("Err", result[n].span)

\* C20: a Newline of width w that gets an inconsistent-dedent error leaves a
\* stack whose top is below w and that does not hold w; a next Newline of the
\* same width w then pushes w and emits an Indentation.
C20_SameWidthAfterError ==
  /\ [][(NewlineStep /\ Count(Added, "Err") = 1) =>
          /\ Top(indent_stack') < Width
          /\ \A i \in DOMAIN indent_stack' : indent_stack'[i] # Width
     ]_vars
  /\ [][(NewlineStep /\ AfterError(Width)) =>
          /\ Added = <<Tok, Syn("Indentation", Tok.span)>>
          /\ indent_stack' = Append(indent_stack, Width)
     ]_vars

\* Two lines of the same width in a row: the Newline of the first got an
\* error entry, the Newline of the second an Indentation.
C20_Witness ==
  \E n, m \in DOMAIN result :
    /\ n < m
    /\ m + 1 = Len(result)
    /\ result[n].kind = "Newline"
    /\ result[m].kind = "Newline"
    /\ result[m + 1].kind = "Indentation"
    /\ \A j \in (n + 1)..(m - 1) : result[j].kind # "Newline"
    /\ \E j \in (n + 1)..(m - 1) : result[j] = Syn("Err", result[n].span)
    /\ indentation(source, result[n].span) = indentation(source, result[m].span)

\* The original statement of C16: started without a filename argument, the
\* driver has written two lines to the error stream when it returns.
C16_Original ==
  (Len(args) < 2 /\ mpc = "exit") => Len(stderr) = 2

\* C16: started without a filename argument, the driver writes three lines to
\* the error stream -- "Invalid usage" and the two lines of the usage message
\* -- and returns: it does not panic, reads no file, does not call the lexer
\* and prints nothing to the output stream.
C16_Usage ==
  /\ [](Len(args) < 2 =>
          /\ mpc \in {"start", "exit"}
          /\ reads = 0
          /\ pc = "idle"
          /\ result = <<>>
          /\ stdout = <<>>
          /\ stderr = (IF mpc = "exit"
                       THEN <<"Invalid usage", "Usage:", "    pyrsc <input.py>">>
                       ELSE <<>>))
  /\ [][(Len(args) < 2 /\ mpc = "start") => mpc' = "exit"]_vars

\* The driver was started without a filename argument and has returned.
C16_Witness ==
  /\ args = <<"pyrsc">>
  /\ mpc = "exit"
  /\ Len(stderr) = 3

====
